---- MODULE Spec2Model ----
(***************************************************************************)
(* HttpClientPool: a pool of rate-limited HTTP clients.                    *)
(*                                                                         *)
(* Time is counted in ticks of 10 ms (the polling interval of GetClient).  *)
(* The zero time.Time is 0; the wall clock starts at StartTime, later than *)
(* the zero time plus any delay, as it is for every real clock reading.    *)
(***************************************************************************)
EXTENDS Integers, Sequences, FiniteSets, TLC

\* ---------------------------------------------------------------- bounds
MaxProxies == 2
MaxDelay == 2
Horizon == 2
MaxAdds == 3

\* time.Sleep(time.Millisecond * 10) in GetClient, in ticks
PollInterval == 1

Nil == 0
NumHandles == MaxProxies + 1
Handles == 1..NumHandles
Delays == 0..MaxDelay
StartTime == MaxDelay + 1
MaxTime == StartTime + Horizon
Procs == {"a", "b"}
NilProxies == -1
ProxyArgs == {NilProxies} \cup (0..MaxProxies)
\* a proxies argument entry by entry: endpoints a client can be built for,
\* and endpoints that are no usable proxy
ProxyKinds == {"ok", "bad"}
ProxyLists == UNION {[1..n -> ProxyKinds] : n \in 0..MaxProxies}

\* what the caller puts in a RequestData, as far as QuickRequest branches on it
ReqInputs == {"ok", "bad_json", "bad_form", "bad_url"}
\* what the network answers to client.Do and io.ReadAll
NetReplies == {"transport_err", "read_err", "200", "201", "429", "500"}
\* the replies that carry a status and a readable body
StatusReplies == {"200", "201", "429", "500"}
NoResult == "none"
\* the user agent a client is constructed with, and one a caller sets later
DefaultUserAgent == "constructed"
UserAgents == {DefaultUserAgent, "changed"}
\* RequestData.Headers is a map[string][]string: the keys a caller uses (two
\* spellings of one header among them) and the values listed under a key
MaxValues == 2
HeaderKeys == {"Accept", "accept", "user-agent"}
HeaderValues == {"v1", "v2"}
ValueLists == UNION {[1..n -> HeaderValues] : n \in 0..MaxValues}
HeaderMaps == UNION {[ks -> ValueLists] : ks \in SUBSET HeaderKeys}
\* a map without keys; also the header of a request not built yet
NoHeaders == [k \in {} |-> <<>>]

VARIABLES
    now,          \* time.Now()
    running,      \* Client.running, per handle
    lastReqTime,  \* Client.lastReqTime, per handle
    delay,        \* Client.delay, per handle
    userAgent,    \* Client.userAgent, per handle
    Clients,      \* ClientPool.Clients of the caller's pool value
    poolDelay,    \* ClientPool.delay of the caller's pool value
    pc,           \* where each caller is
    held,         \* the client a caller is using (its `client` variable)
    gcClients,    \* GetClient, Done: the receiver copy's Clients
    gcDelay,      \* GetClient: the receiver copy's delay
    idx,          \* GetClient, Done: position of the running range loop
    last,         \* GetClient: the local lastReqTime
    wake,         \* GetClient: end of the current time.Sleep
    reqIn,        \* QuickRequest: the request being served
    reqHeaders,   \* QuickRequest: RequestData.Headers of that request
    sentHeader,   \* QuickRequest: req.Header of the outgoing request
    res,          \* QuickRequest, NewClientPool: the last result or error a
                  \* caller got
    lastOp,       \* history: the pool management call that completed last
    expectCount,  \* history: occurrences each handle was added minus removed
    lastGrant,    \* history: <<client, time>> of the last GetClient return
    doneWait      \* history, per Done in progress: <<the clients running at its
                  \* call, those of them not released since>>

clientVars == <<running, lastReqTime, delay>>
poolVars == <<Clients, poolDelay>>
gcVars == <<gcClients, gcDelay, idx, last, wake>>
reqVars == <<reqIn, reqHeaders, sentHeader, res>>
histVars == <<lastOp, expectCount, lastGrant, doneWait>>
vars == <<now, running, lastReqTime, delay, userAgent, Clients, poolDelay, pc,
          held, gcClients, gcDelay, idx, last, wake, reqIn, reqHeaders,
          sentHeader, res,
          lastOp, expectCount, lastGrant, doneWait>>

\* ------------------------------------------------------------- helpers
Count(c, s) == Cardinality({i \in DOMAIN s : s[i] = c})
InPool(c, s) == \E i \in DOMAIN s : s[i] = c
Max(a, b) == IF a >= b THEN a ELSE b
NoHolder(c) == \A q \in Procs : held[q] # c
Crashed == \E q \in Procs : pc[q] = "panic"
\* client.mu is held by a caller that is inside SetActive, between its two
\* assignments; every other method of Client is one step of the model
HoldsLock(p, c) == pc[p] = "sa_locked" /\ held[p] = c
\* a GetClient that kept the locks of its clients while it sleeps
LockedInSleep(c) ==
    \E q \in Procs :
        \/ pc[q] = "sa_locked" /\ held[q] = c
        \/ pc[q] = "gc_sleep" /\ InPool(c, gcClients[q])
Locked(c) == \E q \in Procs : HoldsLock(q, c)

\* ------------------------------------------------------------- Client
\* an IsAvailable that looks at the elapsed time only
IsAvailableByTime(c) == ~(lastReqTime[c] + delay[c] > now)

\* Client.IsAvailable, the mutex-guarded Client
IsAvailable(c) ==
    IF running[c] THEN FALSE
    ELSE IF lastReqTime[c] + delay[c] > now THEN FALSE
    ELSE TRUE

\* Client.IsAvailable of client.go: the rate-limit test uses Before
ClientIsAvailable(c) ==
    IF running[c] THEN FALSE
    ELSE IF lastReqTime[c] + delay[c] < now THEN FALSE
    ELSE TRUE

\* Client.IsRunning
IsRunning(c) == running[c]

\* NewClientPool: the Clients slice it builds for `proxies` (NilProxies, or
\* the number of proxies); the client built for the i-th proxy is handle i
NewClientPool(clientDelay, pDelay, proxies) ==
    [Clients |-> IF proxies = NilProxies
                 THEN <<1>>
                 ELSE [i \in 1..proxies |-> Nil] \o [i \in 1..proxies |-> i],
     delay |-> pDelay]

\* the error NewClientPool reports for `proxies`: it returns a ClientPool and
\* nothing else, and NewClient returns a *Client and nothing else
NewClientPoolError(proxies) == NoResult

\* a caller builds its pool anew from a list of proxies; the clients built
\* are handles 1..len(proxies), fresh
CallNewClientPool(p, clientDelay, pDelay, proxies) ==
    /\ ~Crashed
    /\ pc[p] = "idle"
    /\ \A q \in Procs : pc[q] = "idle" /\ held[q] = Nil
    /\ LET pool == NewClientPool(clientDelay, pDelay, Len(proxies))
           built == 1..Len(proxies)
       IN /\ Clients' = pool.Clients
          /\ poolDelay' = pool.delay
          /\ delay' = [c \in Handles |-> IF c \in built THEN clientDelay ELSE delay[c]]
          /\ running' = [c \in Handles |-> IF c \in built THEN FALSE ELSE running[c]]
          /\ lastReqTime' = [c \in Handles |-> IF c \in built THEN 0 ELSE lastReqTime[c]]
          /\ userAgent' = [c \in Handles |->
                             IF c \in built THEN DefaultUserAgent ELSE userAgent[c]]
          /\ expectCount' = [c \in Handles \cup {Nil} |-> Count(c, pool.Clients)]
    /\ res' = [res EXCEPT ![p] = NewClientPoolError(proxies)]
    /\ lastOp' = <<"NewClientPool", Len(proxies), proxies>>
    /\ UNCHANGED <<now, pc, held, gcVars, reqIn, reqHeaders, sentHeader, lastGrant,
                   doneWait>>

\* ClientPool.AddClient: the Clients of the caller's pool after the call.
\* The receiver is a copy, so the append is made to the copy's slice header.
AddClientClients(clients, c) == clients

\* ClientPool.SetPoolDelay: the delay of the caller's pool after the call.
SetPoolDelayDelay(old, d) == old

\* RemoveClient comparing the clients' field values instead of their identity
RemoveFirstByValue(clients, c) ==
    LET same(e) == \/ e = c
                   \/ /\ e # Nil /\ c # Nil
                      /\ delay[e] = delay[c]
                      /\ running[e] = running[c]
                      /\ lastReqTime[e] = lastReqTime[c]
    IN IF \E k \in DOMAIN clients : same(clients[k])
       THEN LET i == CHOOSE k \in DOMAIN clients :
                        /\ same(clients[k])
                        /\ \A j \in 1..(k - 1) : ~same(clients[j])
            IN SubSeq(clients, 1, i - 1) \o SubSeq(clients, i + 1, Len(clients))
       ELSE clients

\* ClientPool.RemoveClient: remove the first occurrence, by identity
RemoveFirst(clients, c) ==
    IF InPool(c, clients)
    THEN LET i == CHOOSE k \in DOMAIN clients :
                     /\ clients[k] = c
                     /\ \A j \in 1..(k - 1) : clients[j] # c
         IN SubSeq(clients, 1, i - 1) \o SubSeq(clients, i + 1, Len(clients))
    ELSE clients

\* ---------------------------------------------------------------- Init
Init ==
    /\ now = StartTime
    /\ running = [c \in Handles |-> FALSE]
    /\ lastReqTime = [c \in Handles |-> 0]
    /\ userAgent = [c \in Handles |-> DefaultUserAgent]
    /\ \E cd \in Delays, pd \in Delays, px \in ProxyArgs :
          /\ delay = [c \in Handles |-> cd]
          /\ Clients = NewClientPool(cd, pd, px).Clients
          /\ poolDelay = NewClientPool(cd, pd, px).delay
          /\ lastOp = <<"NewClientPool", px>>
    /\ pc = [p \in Procs |-> "idle"]
    /\ held = [p \in Procs |-> Nil]
    /\ gcClients = [p \in Procs |-> <<>>]
    /\ gcDelay = [p \in Procs |-> 0]
    /\ idx = [p \in Procs |-> 0]
    /\ last = [p \in Procs |-> 0]
    /\ wake = [p \in Procs |-> 0]
    /\ reqIn = [p \in Procs |-> NoResult]
    /\ reqHeaders = [p \in Procs |-> NoHeaders]
    /\ sentHeader = [p \in Procs |-> NoHeaders]
    /\ res = [p \in Procs |-> NoResult]
    /\ expectCount = [c \in Handles \cup {Nil} |-> Count(c, Clients)]
    /\ lastGrant = <<Nil, 0>>
    /\ doneWait = [p \in Procs |-> <<{}, {}>>]

\* the clock
Tick ==
    /\ ~Crashed
    /\ now < MaxTime
    /\ now' = now + 1
    /\ UNCHANGED <<userAgent, clientVars, poolVars, pc, held, gcVars, reqVars,
                   histVars>>

\* ------------------------------------------------------ Client methods
\* Client.SetActive, under the client's mutex
SetActive(c) ==
    /\ running' = [running EXCEPT ![c] = TRUE]
    /\ lastReqTime' = [lastReqTime EXCEPT ![c] = now]

\* a release that restarts the client's rate-limit clock
SetInactiveRestamp(c) ==
    /\ running' = [running EXCEPT ![c] = FALSE]
    /\ lastReqTime' = [lastReqTime EXCEPT ![c] = now]

\* a release that also clears the time of the last request
SetInactiveForget(c) ==
    /\ running' = [running EXCEPT ![c] = FALSE]
    /\ lastReqTime' = [lastReqTime EXCEPT ![c] = 0]

\* a release that flips the flag instead of clearing it
SetInactiveToggle(c) ==
    /\ running' = [running EXCEPT ![c] = ~running[c]]
    /\ UNCHANGED lastReqTime

\* Client.SetInactive, under the client's mutex
SetInactive(c) ==
    /\ running' = [running EXCEPT ![c] = FALSE]
    /\ UNCHANGED lastReqTime

\* a caller marks a client nobody is using as active, and uses it
CallSetActive(p, c) ==
    /\ ~Crashed
    /\ pc[p] = "idle" /\ held[p] = Nil /\ NoHolder(c)
    /\ ~Locked(c)
    /\ SetActive(c)
    /\ held' = [held EXCEPT ![p] = c]
    /\ UNCHANGED <<now, userAgent, delay, poolVars, pc, gcVars, reqVars, histVars>>

\* a caller releases the client it uses, or a client nobody is using; lastOp
\* records a release that found nothing to release
CallSetInactive(p, c) ==
    /\ ~Crashed
    /\ pc[p] = "idle"
    /\ held[p] = c \/ (held[p] = Nil /\ NoHolder(c))
    /\ ~Locked(c)
    /\ SetInactive(c)
    /\ held' = [held EXCEPT ![p] = Nil]
    /\ lastOp' = IF running[c] \/ held[p] = c THEN lastOp
                 ELSE <<"SetInactive", c>>
    /\ doneWait' = [q \in Procs |-> <<doneWait[q][1], doneWait[q][2] \ {c}>>]
    /\ UNCHANGED <<now, userAgent, delay, poolVars, pc, gcVars, reqVars,
                   expectCount, lastGrant>>

\* Client.SetActive step by step: `client.mu.Lock()` and
\* `client.running = true`
SetActiveLock(p, c) ==
    /\ ~Crashed
    /\ pc[p] = "idle" /\ held[p] = Nil /\ NoHolder(c)
    /\ ~Locked(c)
    /\ running' = [running EXCEPT ![c] = TRUE]
    /\ held' = [held EXCEPT ![p] = c]
    /\ pc' = [pc EXCEPT ![p] = "sa_locked"]
    /\ UNCHANGED <<now, userAgent, lastReqTime, delay, poolVars, gcVars, reqVars,
                   histVars>>

\* `client.lastReqTime = time.Now()` and the deferred `client.mu.Unlock()`
SetActiveStamp(p) ==
    /\ ~Crashed
    /\ pc[p] = "sa_locked"
    /\ lastReqTime' = [lastReqTime EXCEPT ![held[p]] = now]
    /\ pc' = [pc EXCEPT ![p] = "idle"]
    /\ UNCHANGED <<now, userAgent, running, delay, poolVars, held, gcVars, reqVars,
                   histVars>>

\* Client.SetUserAgent, under the client's mutex
CallSetUserAgent(p, c, u) ==
    /\ ~Crashed
    /\ pc[p] = "idle"
    /\ ~Locked(c)
    /\ userAgent' = [userAgent EXCEPT ![c] = u]
    /\ UNCHANGED <<now, clientVars, poolVars, pc, held, gcVars, reqVars, histVars>>

\* ------------------------------------------------- ClientPool.GetClient
\* a Done that keeps the other callers out of GetClient while it waits
DoneBlocksCallers(p) == \E q \in Procs \ {p} : pc[q] = "done_scan"

\* what a Done in progress keeps caller p from: Done takes no lock and sets
\* no flag, it only reads client.running
DoneBlocks(p) == FALSE

\* the call: the receiver is a copy of the caller's pool value
GetClientCall(p) ==
    /\ ~Crashed
    /\ pc[p] = "idle" /\ held[p] = Nil
    /\ ~DoneBlocks(p)
    /\ pc' = [pc EXCEPT ![p] = "gc_max"]
    /\ gcClients' = [gcClients EXCEPT ![p] = Clients]
    /\ gcDelay' = [gcDelay EXCEPT ![p] = poolDelay]
    /\ idx' = [idx EXCEPT ![p] = 1]
    /\ last' = [last EXCEPT ![p] = 0]
    /\ UNCHANGED <<now, userAgent, clientVars, poolVars, held, wake, reqVars, histVars>>

\* first range loop: `if client.lastReqTime.After(lastReqTime)`
GetClientMax(p) ==
    /\ ~Crashed
    /\ pc[p] = "gc_max"
    /\ IF idx[p] > Len(gcClients[p])
       THEN /\ pc' = [pc EXCEPT ![p] = "gc_gate"]
            /\ UNCHANGED idx
       ELSE LET c == gcClients[p][idx[p]] IN
            IF c = Nil
            THEN /\ pc' = [pc EXCEPT ![p] = "panic"]
                 /\ UNCHANGED idx
            ELSE IF lastReqTime[c] > last[p]
            THEN /\ pc' = [pc EXCEPT ![p] = "gc_max_set"]
                 /\ UNCHANGED idx
            ELSE /\ idx' = [idx EXCEPT ![p] = idx[p] + 1]
                 /\ UNCHANGED pc
    /\ UNCHANGED <<now, userAgent, clientVars, poolVars, held, gcClients, gcDelay, last,
                   wake, reqVars, histVars>>

\* first range loop: `lastReqTime = client.lastReqTime`
GetClientMaxSet(p) ==
    /\ ~Crashed
    /\ pc[p] = "gc_max_set"
    /\ last' = [last EXCEPT ![p] = lastReqTime[gcClients[p][idx[p]]]]
    /\ pc' = [pc EXCEPT ![p] = "gc_max_act"]
    /\ UNCHANGED <<now, userAgent, clientVars, poolVars, held, gcClients, gcDelay, idx,
                   wake, reqVars, histVars>>

\* first range loop: `client.SetActive()`
GetClientMaxAct(p) ==
    /\ ~Crashed
    /\ pc[p] = "gc_max_act"
    /\ ~Locked(gcClients[p][idx[p]])
    /\ SetActive(gcClients[p][idx[p]])
    /\ idx' = [idx EXCEPT ![p] = idx[p] + 1]
    /\ pc' = [pc EXCEPT ![p] = "gc_max"]
    /\ UNCHANGED <<now, userAgent, delay, poolVars, held, gcClients, gcDelay, last,
                   wake, reqVars, histVars>>

\* `!lastReqTime.Add(pool.delay).After(time.Now())`
PoolGateOpen(lastReq, pDelay, t) == ~(lastReq + pDelay > t)

\* when a time.Sleep(time.Millisecond * 10) that starts now is over; the
\* clock of the model stops at MaxTime, and a sleep ends there at the latest
SleepEnd == IF now + PollInterval > MaxTime THEN MaxTime ELSE now + PollInterval

\* the pool-delay test; when it fails the loop body ends in time.Sleep
GetClientGate(p) ==
    /\ ~Crashed
    /\ pc[p] = "gc_gate"
    /\ IF PoolGateOpen(last[p], gcDelay[p], now)
       THEN /\ pc' = [pc EXCEPT ![p] = "gc_scan"]
            /\ idx' = [idx EXCEPT ![p] = 1]
            /\ UNCHANGED wake
       ELSE /\ pc' = [pc EXCEPT ![p] = "gc_sleep"]
            /\ wake' = [wake EXCEPT ![p] = SleepEnd]
            /\ UNCHANGED idx
    /\ UNCHANGED <<now, userAgent, clientVars, poolVars, held, gcClients, gcDelay, last,
                   reqVars, histVars>>

\* what GetClient does to the client it returns, besides returning it
GetClientClaim(c) == UNCHANGED <<running, lastReqTime>>

\* a scan that looks at every other client only
ScanSkip(i) == i + 2

\* second range loop: the position after position i
ScanNext(i) == i + 1

\* second range loop: `if client.IsAvailable() { return client }`
\* (on return the locals of the call are gone)
GetClientScan(p) ==
    /\ ~Crashed
    /\ pc[p] = "gc_scan"
    /\ ~DoneBlocks(p)
    /\ (idx[p] \in DOMAIN gcClients[p] /\ gcClients[p][idx[p]] # Nil)
          => ~Locked(gcClients[p][idx[p]])
    /\ IF idx[p] > Len(gcClients[p])
       THEN /\ pc' = [pc EXCEPT ![p] = "gc_sleep"]
            /\ wake' = [wake EXCEPT ![p] = SleepEnd]
            /\ UNCHANGED <<idx, held, running, lastReqTime, histVars,
                           gcClients, gcDelay, last>>
       ELSE LET c == gcClients[p][idx[p]] IN
            IF c = Nil
            THEN /\ pc' = [pc EXCEPT ![p] = "panic"]
                 /\ UNCHANGED <<idx, wake, held, running, lastReqTime, histVars,
                                gcClients, gcDelay, last>>
            ELSE IF IsAvailable(c)
            THEN /\ GetClientClaim(c)
                 /\ pc' = [pc EXCEPT ![p] = "idle"]
                 /\ held' = [held EXCEPT ![p] = c]
                 /\ lastGrant' = <<c, now>>
                 /\ idx' = [idx EXCEPT ![p] = 0]
                 /\ last' = [last EXCEPT ![p] = 0]
                 /\ gcClients' = [gcClients EXCEPT ![p] = <<>>]
                 /\ gcDelay' = [gcDelay EXCEPT ![p] = 0]
                 /\ UNCHANGED <<wake, lastOp, expectCount, doneWait>>
            ELSE /\ idx' = [idx EXCEPT ![p] = ScanNext(idx[p])]
                 /\ UNCHANGED <<pc, wake, held, running, lastReqTime, histVars,
                                gcClients, gcDelay, last>>
    /\ UNCHANGED <<now, userAgent, delay, poolVars, reqVars>>

\* time.Sleep(time.Millisecond * 10) is over: the outer `for` starts again
GetClientWake(p) ==
    /\ ~Crashed
    /\ pc[p] = "gc_sleep"
    /\ now >= wake[p]
    /\ pc' = [pc EXCEPT ![p] = "gc_max"]
    /\ idx' = [idx EXCEPT ![p] = 1]
    /\ last' = [last EXCEPT ![p] = 0]
    /\ wake' = [wake EXCEPT ![p] = 0]
    /\ UNCHANGED <<now, userAgent, clientVars, poolVars, held, gcClients, gcDelay,
                   reqVars, histVars>>

\* ------------------------------------------- ClientPool collection, delay
AddClient(p, c) ==
    /\ ~Crashed
    /\ pc[p] = "idle"
    /\ expectCount[c] < MaxAdds
    /\ Clients' = AddClientClients(Clients, c)
    /\ expectCount' = [expectCount EXCEPT ![c] = @ + 1]
    /\ lastOp' = <<"AddClient", c>>
    /\ UNCHANGED <<now, userAgent, clientVars, poolDelay, pc, held, gcVars, reqVars,
                   lastGrant, doneWait>>

\* a caller appends to the exported field of its own pool value:
\* `pool.Clients = append(pool.Clients, client)`
AppendClient(p, c) ==
    /\ ~Crashed
    /\ pc[p] = "idle"
    /\ expectCount[c] < MaxAdds
    /\ Clients' = Append(Clients, c)
    /\ expectCount' = [expectCount EXCEPT ![c] = @ + 1]
    /\ lastOp' = <<"Append", c>>
    /\ UNCHANGED <<now, userAgent, clientVars, poolDelay, pc, held, gcVars, reqVars,
                   lastGrant, doneWait>>

RemoveClient(p, c) ==
    /\ ~Crashed
    /\ pc[p] = "idle"
    /\ Clients' = RemoveFirst(Clients, c)
    /\ expectCount' = [expectCount EXCEPT ![c] = Max(0, @ - 1)]
    /\ lastOp' = <<"RemoveClient", c>>
    /\ UNCHANGED <<now, userAgent, clientVars, poolDelay, pc, held, gcVars, reqVars,
                   lastGrant, doneWait>>

SetPoolDelay(p, d) ==
    /\ ~Crashed
    /\ pc[p] = "idle"
    /\ poolDelay' = SetPoolDelayDelay(poolDelay, d)
    /\ lastOp' = <<"SetPoolDelay", d>>
    /\ UNCHANGED <<now, userAgent, clientVars, Clients, pc, held, gcVars, reqVars,
                   expectCount, lastGrant, doneWait>>

\* ClientPool.SetClientDelay: `for _, client := range pool.Clients` with
\* `client.delay = clientDelay`; a nil entry ends the loop in a panic
RECURSIVE SetClientDelayLoop(_, _, _)
SetClientDelayLoop(clients, d, delays) ==
    IF clients = <<>> THEN [delay |-> delays, panic |-> FALSE]
    ELSE IF Head(clients) = Nil THEN [delay |-> delays, panic |-> TRUE]
    ELSE SetClientDelayLoop(Tail(clients), d,
                            [delays EXCEPT ![Head(clients)] = d])

SetClientDelay(p, d) ==
    /\ ~Crashed
    /\ pc[p] = "idle"
    /\ delay' = SetClientDelayLoop(Clients, d, delay).delay
    /\ pc' = IF SetClientDelayLoop(Clients, d, delay).panic
             THEN [pc EXCEPT ![p] = "panic"]
             ELSE pc
    /\ lastOp' = <<"SetClientDelay", d>>
    /\ UNCHANGED <<now, userAgent, running, lastReqTime, poolVars, held, gcVars, reqVars,
                   expectCount, lastGrant, doneWait>>

\* ------------------------------------------------------ ClientPool.Done
\* a Done that takes every client for idle
DoneSeesNothing(c) == FALSE

\* `if client.running`, read without the client's mutex
DoneSees(c) == running[c]

\* the call: the receiver is a copy of the caller's pool value
DoneCall(p) ==
    /\ ~Crashed
    /\ pc[p] = "idle" /\ held[p] = Nil
    /\ pc' = [pc EXCEPT ![p] = "done_scan"]
    /\ gcClients' = [gcClients EXCEPT ![p] = Clients]
    /\ idx' = [idx EXCEPT ![p] = 1]
    /\ LET busy == {c \in Handles : InPool(c, Clients) /\ running[c]} IN
          doneWait' = [doneWait EXCEPT ![p] = <<busy, busy>>]
    /\ UNCHANGED <<now, userAgent, clientVars, poolVars, held, gcDelay, last, wake,
                   reqVars, lastOp, expectCount, lastGrant>>

\* one iteration of the range loop; after the loop `if done { return }`. A
\* running client ends the pass, and after time.Sleep(10), ten nanoseconds,
\* the next pass starts at the first client
DoneScan(p) ==
    /\ ~Crashed
    /\ pc[p] = "done_scan"
    /\ IF idx[p] > Len(gcClients[p])
       THEN /\ pc' = [pc EXCEPT ![p] = "idle"]
            /\ idx' = [idx EXCEPT ![p] = 0]
            /\ gcClients' = [gcClients EXCEPT ![p] = <<>>]
            /\ doneWait' = [doneWait EXCEPT ![p] = <<{}, {}>>]
       ELSE LET c == gcClients[p][idx[p]] IN
            IF c = Nil
            THEN /\ pc' = [pc EXCEPT ![p] = "panic"]
                 /\ UNCHANGED <<idx, gcClients, doneWait>>
            ELSE IF DoneSees(c)
            THEN /\ idx' = [idx EXCEPT ![p] = 1]
                 /\ UNCHANGED <<pc, gcClients, doneWait>>
            ELSE /\ idx' = [idx EXCEPT ![p] = idx[p] + 1]
                 /\ UNCHANGED <<pc, gcClients, doneWait>>
    /\ UNCHANGED <<now, userAgent, clientVars, poolVars, held, gcDelay, last, wake,
                   reqVars, lastOp, expectCount, lastGrant>>

\* Client.SetDelay, under the client's mutex
CallSetDelay(p, c, d) ==
    /\ ~Crashed
    /\ pc[p] = "idle"
    /\ ~Locked(c)
    /\ delay' = [delay EXCEPT ![c] = d]
    /\ UNCHANGED <<now, userAgent, running, lastReqTime, poolVars, pc, held, gcVars,
                   reqVars, histVars>>

\* ------------------------------------------------- Client.QuickRequest
\* the returns before client.Do: body encoding, http.NewRequest
EarlyResult(in) ==
    IF in \in {"bad_json", "bad_form"} THEN "encode_err"
    ELSE IF in = "bad_url" THEN "request_err"
    ELSE NoResult

\* quick_request.go: what QuickRequest returns
QuickRequestResult(in, reply) ==
    IF EarlyResult(in) # NoResult THEN EarlyResult(in)
    ELSE IF reply = "transport_err" THEN "transport_err"
    ELSE IF reply = "read_err" THEN "read_err"
    ELSE "response"

\* pool.go: what QuickRequest returns
RunningQuickRequestResult(in, reply) ==
    IF EarlyResult(in) # NoResult THEN EarlyResult(in)
    ELSE IF reply = "transport_err" THEN "transport_err"
    ELSE IF reply = "read_err" THEN "read_err"
    ELSE IF reply = "200" THEN "response"
    ELSE IF reply = "429" THEN "RateLimitedError"
    ELSE "ResponseStatusError"

\* net/http canonicalises the key of every Header.Set
CanonicalKey(key) ==
    IF key = "accept" THEN "Accept"
    ELSE IF key = "user-agent" THEN "User-Agent"
    ELSE key

\* http.Header.Set: the key's values become the one value given
HeaderSet(header, key, value) ==
    [k \in DOMAIN header \cup {CanonicalKey(key)} |->
        IF k = CanonicalKey(key) THEN <<value>> ELSE header[k]]

\* `for _, value := range values { req.Header.Set(key, value) }`
RECURSIVE SetValues(_, _, _)
SetValues(header, key, values) ==
    IF values = <<>> THEN header
    ELSE SetValues(HeaderSet(header, key, Head(values)), key, Tail(values))

\* `for key, values := range reqData.Headers`, the keys taken in `order`
RECURSIVE SetHeaders(_, _, _)
SetHeaders(header, headers, order) ==
    IF order = <<>> THEN header
    ELSE SetHeaders(SetValues(header, Head(order), headers[Head(order)]),
                    headers, Tail(order))

\* the orders in which a range statement may visit the keys of a map
KeyOrders(headers) ==
    {o \in [1..Cardinality(DOMAIN headers) -> DOMAIN headers] :
        \A i, j \in DOMAIN o : i # j => o[i] # o[j]}

\* req.Header when client.Do is called: the caller's headers, then the
\* client's user agent
RequestHeader(headers, order, ua) ==
    HeaderSet(SetHeaders(NoHeaders, headers, order), "user-agent", ua)

\* a caller may pass the client it uses, or one nobody is using
MayUse(p, c) == held[p] = c \/ (held[p] = Nil /\ NoHolder(c))

\* quick_request.go: QuickRequest is entered and builds the request, up to
\* client.Do; it writes no field of the client
QuickRequestStart(p, c, in, headers, order) ==
    /\ ~Crashed
    /\ pc[p] = "idle" /\ MayUse(p, c)
    /\ order \in KeyOrders(headers)
    /\ pc' = [pc EXCEPT ![p] = "qr"]
    /\ held' = [held EXCEPT ![p] = c]
    /\ reqIn' = [reqIn EXCEPT ![p] = in]
    /\ reqHeaders' = [reqHeaders EXCEPT ![p] = headers]
    /\ sentHeader' = [sentHeader EXCEPT ![p] =
                         IF EarlyResult(in) = NoResult
                         THEN RequestHeader(headers, order, userAgent[c])
                         ELSE NoHeaders]
    /\ UNCHANGED <<now, userAgent, clientVars, poolVars, gcVars, res, histVars>>

\* quick_request.go: QuickRequest returns
QuickRequestReturn(p, reply) ==
    /\ ~Crashed
    /\ pc[p] = "qr"
    /\ res' = [res EXCEPT ![p] = QuickRequestResult(reqIn[p], reply)]
    /\ reqIn' = [reqIn EXCEPT ![p] = NoResult]
    /\ reqHeaders' = [reqHeaders EXCEPT ![p] = NoHeaders]
    /\ sentHeader' = [sentHeader EXCEPT ![p] = NoHeaders]
    /\ pc' = [pc EXCEPT ![p] = "idle"]
    /\ UNCHANGED <<now, userAgent, clientVars, poolVars, held, gcVars, histVars>>

\* pool.go: `client.running = true`, written without the mutex
RunningQuickRequestStart(p, c, in) ==
    /\ ~Crashed
    /\ pc[p] = "idle" /\ MayUse(p, c)
    /\ running' = [running EXCEPT ![c] = TRUE]
    /\ pc' = [pc EXCEPT ![p] = "qr_run"]
    /\ held' = [held EXCEPT ![p] = c]
    /\ reqIn' = [reqIn EXCEPT ![p] = in]
    /\ UNCHANGED <<now, userAgent, lastReqTime, delay, poolVars, gcVars, reqHeaders,
                   sentHeader, res, histVars>>

\* pool.go: QuickRequest returns; `defer func() { client.running = false }()`
RunningQuickRequestReturn(p, reply) ==
    /\ ~Crashed
    /\ pc[p] = "qr_run"
    /\ running' = [running EXCEPT ![held[p]] = FALSE]
    /\ res' = [res EXCEPT ![p] = RunningQuickRequestResult(reqIn[p], reply)]
    /\ reqIn' = [reqIn EXCEPT ![p] = NoResult]
    /\ UNCHANGED <<reqHeaders, sentHeader>>
    /\ held' = [held EXCEPT ![p] = Nil]
    /\ pc' = [pc EXCEPT ![p] = "idle"]
    /\ UNCHANGED <<now, userAgent, lastReqTime, delay, poolVars, gcVars, histVars>>

\* nothing has been acquired or requested yet: the pool is being set up
Quiet ==
    /\ now = StartTime
    /\ \A q \in Procs : pc[q] = "idle" /\ held[q] = Nil
    /\ \A c \in Handles : ~running[c] /\ lastReqTime[c] = 0
    /\ lastGrant = <<Nil, 0>>

\* acquisition and release by concurrent callers; before the first of them a
\* caller may drop the placeholder entries NewClientPool left in the collection
Next ==
    \/ Tick
    \/ \E p \in Procs, c \in Handles : InPool(c, Clients) /\ CallSetActive(p, c)
    \/ \E p \in Procs, c \in Handles :
          InPool(c, Clients) /\ (held[p] = c \/ running[c]) /\ CallSetInactive(p, c)
    \/ \E p \in Procs : DoneCall(p)
    \/ \E p \in Procs : DoneScan(p)
    \/ \E p \in Procs : GetClientCall(p)
    \/ \E p \in Procs : GetClientMax(p)
    \/ \E p \in Procs : GetClientMaxSet(p)
    \/ \E p \in Procs : GetClientMaxAct(p)
    \/ \E p \in Procs : GetClientGate(p)
    \/ \E p \in Procs : GetClientScan(p)
    \/ \E p \in Procs : GetClientWake(p)
    \/ \E p \in Procs : Quiet /\ RemoveClient(p, Nil)

Spec == Init /\ [][Next]_vars

\* the collection and the pool delay under any sequence of management calls
NextPool ==
    \/ \E p \in Procs, c \in Handles : AddClient(p, c)
    \/ \E p \in Procs, c \in Handles \cup {Nil} : RemoveClient(p, c)
    \/ \E p \in Procs, d \in Delays : SetPoolDelay(p, d)
    \/ \E p \in Procs, d \in Delays : SetClientDelay(p, d)

SpecPool == Init /\ [][NextPool]_vars

\* pools built from every list of proxies
NextConstruct ==
    \E p \in Procs, cd \in Delays, pd \in Delays, proxies \in ProxyLists :
        CallNewClientPool(p, cd, pd, proxies)

SpecConstruct == Init /\ [][NextConstruct]_vars

\* NewClientPool(clientDelay, 0, nil, nil): the clients are used directly
\* --------------------------------------------------- access to fields
\* the next step of caller p reads or writes running, lastReqTime or delay
\* of client c outside the methods of Client: GetClient's
\* client.lastReqTime, Done's client.running, and the client.running of the
\* QuickRequest of pool.go
AccessesField(p, c) ==
    \/ /\ pc[p] \in {"gc_max", "gc_max_set", "done_scan"}
       /\ idx[p] \in DOMAIN gcClients[p]
       /\ gcClients[p][idx[p]] = c
    \/ pc[p] = "qr_run" /\ held[p] = c

\* the client is inside a SetActive: flag written, time not yet
HalfActive(c) == Locked(c) /\ running[c]

\* the pool's client and one built with NewClient
RequestClients == {c \in Handles : c <= 2}

\* ----------------------------------------------------- fair scheduling
GetClientPcs == {"gc_max", "gc_max_set", "gc_max_act", "gc_gate", "gc_scan",
                 "gc_sleep"}
Pending(p) == pc[p] \in GetClientPcs
Served(p) == pc[p] = "idle" /\ held[p] # Nil

\* the steps of a GetClient call in progress
GetClientStep(p) ==
    \/ GetClientMax(p)
    \/ GetClientMaxSet(p)
    \/ GetClientMaxAct(p)
    \/ GetClientGate(p)
    \/ GetClientScan(p)
    \/ GetClientWake(p)

\* a holder releases the client it uses
Release(p) == held[p] # Nil /\ CallSetInactive(p, held[p])

\* a pool that is empty or has one client, no delays
InitLive ==
    /\ Init
    /\ Len(Clients) <= 1 /\ ~InPool(Nil, Clients)
    /\ poolDelay = 0
    /\ \A c \in Handles : delay[c] = 0

\* callers that acquire with GetClient and release with SetInactive; while
\* no GetClient is in progress a caller may also use an idle client of the
\* pool directly (SetActive, SetInactive); clients are added to an empty pool
NextLive ==
    \/ Tick
    \/ \E p \in Procs : GetClientCall(p)
    \/ \E p \in Procs : GetClientStep(p)
    \/ \E p \in Procs : Release(p)
    \/ \E p \in Procs, c \in RequestClients :
          /\ InPool(c, Clients) /\ \A q \in Procs : ~Pending(q)
          /\ CallSetActive(p, c)
    \/ \E p \in Procs, c \in RequestClients : Clients = <<>> /\ AddClient(p, c)

\* goroutines are scheduled fairly: the clock advances, a call in progress
\* takes its next step, and a holder releases its client
Fairness ==
    /\ WF_vars(Tick)
    /\ \A p \in Procs : WF_vars(GetClientStep(p))
    /\ \A p \in Procs : WF_vars(Release(p))

SpecLive == InitLive /\ [][NextLive]_vars /\ Fairness

\* callers that wait in Done while others use clients of the pool by hand
\* and release them; a Done in progress takes its next step, and a holder
\* releases its client
NextDrain ==
    \/ \E p \in Procs : DoneCall(p)
    \/ \E p \in Procs : DoneScan(p)
    \/ \E p \in Procs, c \in Handles : InPool(c, Clients) /\ CallSetActive(p, c)
    \/ \E p \in Procs : Release(p)

SpecDrain ==
    /\ Init
    /\ [][NextDrain]_vars
    /\ \A p \in Procs : WF_vars(DoneScan(p)) /\ WF_vars(Release(p))

InitClient ==
    /\ Init
    /\ Clients = <<1>>
    /\ poolDelay = 0

\* bare clients: SetActive, SetInactive, SetDelay against the clock
NextClient ==
    \/ Tick
    \/ \E p \in Procs, c \in RequestClients : CallSetActive(p, c)
    \/ \E p \in Procs, c \in RequestClients : CallSetInactive(p, c)
    \/ \E p \in Procs, c \in RequestClients, d \in Delays : CallSetDelay(p, c, d)
    \/ \E p \in Procs, c \in RequestClients, u \in UserAgents : CallSetUserAgent(p, c, u)

SpecClient == InitClient /\ [][NextClient]_vars

\* requests through either QuickRequest, on clients marked by hand or not
NextRequest ==
    \/ \E p \in Procs, c \in RequestClients : CallSetActive(p, c)
    \/ \E p \in Procs, c \in RequestClients :
          (held[p] = c \/ running[c]) /\ CallSetInactive(p, c)
    \/ \E p \in Procs, c \in RequestClients, in \in ReqInputs :
          QuickRequestStart(p, c, in, NoHeaders, <<>>)
    \/ \E p \in Procs, reply \in NetReplies : QuickRequestReturn(p, reply)
    \/ \E p \in Procs, c \in RequestClients, in \in ReqInputs :
          RunningQuickRequestStart(p, c, in)
    \/ \E p \in Procs, reply \in NetReplies : RunningQuickRequestReturn(p, reply)

SpecRequest == InitClient /\ [][NextRequest]_vars

\* one request at a time through the QuickRequest of quick_request.go, with
\* every header map, on the client of a one-client pool, whose user agent
\* callers change between requests
NextHeaders ==
    \/ \E p \in Procs, i \in DOMAIN Clients, u \in UserAgents :
          CallSetUserAgent(p, Clients[i], u)
    \/ /\ \A q \in Procs : pc[q] = "idle"
       /\ \E p \in Procs, i \in DOMAIN Clients, headers \in HeaderMaps :
             \E order \in KeyOrders(headers) :
                QuickRequestStart(p, Clients[i], "ok", headers, order)
    \/ \E p \in Procs, reply \in StatusReplies : QuickRequestReturn(p, reply)

SpecHeaders == InitClient /\ [][NextHeaders]_vars

\* the scans of GetClient and Done while another caller adds the client it
\* built with NewClient. No client is ever marked here, so the first loop of
\* GetClient never finds a later request time
Scanning(p) == pc[p] \in {"gc_max", "gc_gate", "gc_scan", "gc_sleep", "done_scan"}
NextMutate ==
    \/ Tick
    \/ \E p \in Procs : GetClientCall(p)
    \/ \E p \in Procs : GetClientMax(p)
    \/ \E p \in Procs : GetClientGate(p)
    \/ \E p \in Procs : GetClientScan(p)
    \/ \E p \in Procs : GetClientWake(p)
    \/ \E p \in Procs : held[p] # Nil /\ CallSetInactive(p, held[p])
    \/ \E p \in Procs : DoneCall(p)
    \/ \E p \in Procs : DoneScan(p)
    \/ \E p \in Procs :
          (\E q \in Procs \ {p} : Scanning(q)) /\ AddClient(p, NumHandles)

SpecMutate == Init /\ [][NextMutate]_vars

\* a pool in which the caller put its one client several times, used by
\* callers that acquire with GetClient or mark an occurrence by hand, release
\* with SetInactive and wait in Done
NextDup ==
    \/ Tick
    \/ \E p \in Procs, i \in DOMAIN Clients :
          /\ \A q \in Procs : pc[q] = "idle" /\ held[q] = Nil
          /\ AppendClient(p, Clients[i])
    \/ \E p \in Procs, i \in DOMAIN Clients : CallSetActive(p, Clients[i])
    \/ \E p \in Procs : GetClientCall(p)
    \/ \E p \in Procs : GetClientStep(p)
    \/ \E p \in Procs : Release(p)
    \/ \E p \in Procs : DoneCall(p)
    \/ \E p \in Procs : DoneScan(p)

SpecDup == InitClient /\ [][NextDup]_vars

\* callers that mark clients by hand, step by step, next to callers in
\* GetClient and Done
NextLock ==
    \/ Tick
    \/ \E p \in Procs, c \in RequestClients : InPool(c, Clients) /\ SetActiveLock(p, c)
    \/ \E p \in Procs : SetActiveStamp(p)
    \/ \E p \in Procs : Release(p)
    \/ \E p \in Procs : GetClientCall(p)
    \/ \E p \in Procs : GetClientStep(p)
    \/ \E p \in Procs : DoneCall(p)
    \/ \E p \in Procs : DoneScan(p)

SpecLock == InitClient /\ [][NextLock]_vars

\* ================================================================ claims
\* GetClient has just returned to caller p (in this step)
Returned(p) == pc[p] = "gc_scan" /\ pc'[p] = "idle"

\* C1: no client is held by two callers at once: a client GetClient returned
\* is not returned again before its holder called SetInactive on it.
C1_MutualExclusion ==
    \A p, q \in Procs : (p # q /\ held[p] # Nil) => held[p] # held[q]

\* C2: when GetClient returns client c, c is running and its last-request
\* time is the time of this acquisition.
C2_ReturnedClientIsBusy ==
    [][\A p \in Procs :
          Returned(p) => /\ running'[held'[p]]
                         /\ lastReqTime'[held'[p]] = now']_vars

\* C3: IsAvailable is true iff the client is not running and at least its
\* delay has elapsed since its last SetActive (equality counts as elapsed).
\* Stated of the IsAvailable of client.go.
C3_IsAvailableIffIdleAndElapsed ==
    \A c \in Handles :
        ClientIsAvailable(c) <=> (~running[c] /\ now - lastReqTime[c] >= delay[c])

\* C3, the mutex-guarded IsAvailable of utils.go: it does meet the statement.
C3_MutexIsAvailableIffIdleAndElapsed ==
    \A c \in Handles :
        IsAvailable(c) <=> (~running[c] /\ now - lastReqTime[c] >= delay[c])

\* C4: two consecutive acquisitions of the same client through GetClient are
\* at least that client's delay apart.
C4_PerClientCadence ==
    [][\A p \in Procs :
          (Returned(p) /\ lastGrant[1] = held'[p])
              => now' - lastGrant[2] >= delay[held'[p]]]_vars

\* C5: two consecutive acquisitions granted by GetClient, to whichever
\* clients and callers, are at least the pool delay apart.
C5_PoolCadence ==
    [][\A p \in Procs :
          (Returned(p) /\ lastGrant[1] # Nil)
              => now' - lastGrant[2] >= poolDelay]_vars

\* C6: the client serving a QuickRequest is marked active for the duration
\* of the request (and released when QuickRequest returns).
C6_ActiveDuringRequest ==
    \A p \in Procs : pc[p] \in {"qr", "qr_run"} => running[held[p]]

\* C7: AddClient appends the client: the caller's collection is one element
\* longer and ends with the client added.
C7_AddClientAppends ==
    [][\A p \in Procs, c \in Handles :
          AddClient(p, c) => Clients' = Append(Clients, c)]_vars

\* C8: after a RemoveClient the collection holds each handle as often as it
\* was put in minus the removals that found it: three adds and one removal
\* leave two occurrences.
C8_RemovalLeavesTheRest ==
    \A c \in Handles \cup {Nil} :
        lastOp = <<"RemoveClient", c>> => Count(c, Clients) = expectCount[c]

\* C9: RemoveClient with a handle that is not in the collection changes
\* neither the collection, nor its order, nor the state of any client.
C9_RemoveAbsentIsNoOp ==
    [][\A p \in Procs, c \in Handles \cup {Nil} :
          (RemoveClient(p, c) /\ ~InPool(c, Clients))
              => UNCHANGED <<Clients, poolDelay, running, lastReqTime, delay>>]_vars

\* C9 witness: RemoveClient was called with a client that was never in the
\* pool and has the field values of one that is; the pool is not empty.
C9_Witness ==
    /\ lastOp = <<"RemoveClient", NumHandles>>
    /\ ~InPool(NumHandles, Clients)
    /\ \E i \in DOMAIN Clients :
          /\ Clients[i] # Nil
          /\ delay[Clients[i]] = delay[NumHandles]
          /\ running[Clients[i]] = running[NumHandles]
          /\ lastReqTime[Clients[i]] = lastReqTime[NumHandles]

\* C10: after SetPoolDelay(d) returns, d is the pool delay that the next
\* GetClient on the pool reads.
C10_SetPoolDelayTakesEffect ==
    \A d \in Delays : lastOp = <<"SetPoolDelay", d>> => poolDelay = d

\* C11: after SetClientDelay(d) every client that is in the pool has delay d
\* (and the clients that are not in it keep theirs).
C11_SetClientDelayReachesEveryClient ==
    \A d \in Delays :
        lastOp = <<"SetClientDelay", d>>
            => \A c \in Handles : InPool(c, Clients) => delay[c] = d

\* C12: NewClientPool yields one client when proxies is nil and otherwise one
\* client per proxy: the collection has length 1, respectively len(proxies),
\* and every entry is a client with the given client delay.
C12_OneClientPerProxy ==
    lastOp[1] = "NewClientPool"
        => /\ Len(Clients) = (IF lastOp[2] = NilProxies THEN 1 ELSE lastOp[2])
           /\ \A i \in DOMAIN Clients : Clients[i] # Nil

\* C13: Done returns only when every client that was running at its call has
\* been released (SetInactive) since; the clients that were not running had
\* reported not-running at the call.
DoneReturned(p) == pc[p] = "done_scan" /\ pc'[p] = "idle"
C13_DoneWaitsForRelease ==
    [][\A p \in Procs : DoneReturned(p) => doneWait[p][2] = {}]_vars

\* a Done that found a client running at its call has finished a pass over a
\* pool of clients and is about to return
C13_Witness ==
    \E p \in Procs :
        /\ pc[p] = "done_scan"
        /\ idx[p] > Len(gcClients[p])
        /\ doneWait[p][1] # {}

\* C14: a GetClient that was called on an empty pool returns normally once a
\* client has been added (it blocks until then, and does not fail).
C14_ServedOnceClientAdded ==
    \A p \in Procs :
        (Pending(p) /\ gcClients[p] = <<>> /\ lastOp[1] = "AddClient")
            ~> Served(p)

\* C15: under fair scheduling, with every holder releasing its client, a
\* GetClient in progress on a pool that has a client is eventually served: it
\* does not stay blocked for ever while no other caller holds a client.
C15_PendingGetClientIsServed ==
    \A p \in Procs :
        (Pending(p) /\ gcClients[p] # <<>>)
            ~> (Served(p) \/ \E q \in Procs \ {p} : held[q] # Nil)

\* C16: SetInactive on a client that is not running leaves it not running and
\* leaves its delay, user agent and last-request time as they were.
C16_ReleaseIsIdempotent ==
    [][\A p \in Procs, c \in Handles :
          (CallSetInactive(p, c) /\ ~running[c])
              => /\ ~running'[c]
                 /\ delay'[c] = delay[c]
                 /\ userAgent'[c] = userAgent[c]
                 /\ lastReqTime'[c] = lastReqTime[c]]_vars

\* a client that has been used, released and given another user agent and
\* delay was released once more
C16_Witness ==
    \E c \in Handles :
        /\ lastOp = <<"SetInactive", c>>
        /\ ~running[c]
        /\ lastReqTime[c] > 0
        /\ userAgent[c] # DefaultUserAgent
        /\ delay[c] = MaxDelay

\* C17: SetActive is atomic for every observer: no caller reads a field of a
\* client whose busy flag is already set while its time is still the old one.
C17_NoHalfActiveObservation ==
    \A p \in Procs, c \in Handles : AccessesField(p, c) => ~HalfActive(c)

\* C18: a caller that reads or writes running, lastReqTime or delay of a
\* client holds that client's lock.
C18_LockDiscipline ==
    \A p \in Procs, c \in Handles : AccessesField(p, c) => HoldsLock(p, c)

\* C19: a client on which SetActive has never been called (its last-request
\* time is the zero time) is not running and is available, whatever its delay.
C19_FreshClientIsAvailable ==
    \A c \in Handles :
        lastReqTime[c] = 0 => ~running[c] /\ ClientIsAvailable(c)

\* C20: a QuickRequest that got a reply returns a response for a success
\* status, RateLimitedError for 429 and ResponseStatusError for every other
\* status.
C20_StatusClassification ==
    [][\A p \in Procs, reply \in StatusReplies :
          /\ EarlyResult(reqIn[p]) = NoResult
          /\ QuickRequestReturn(p, reply) \/ RunningQuickRequestReturn(p, reply)
          => res'[p] = IF reply \in {"200", "201"} THEN "response"
                       ELSE IF reply = "429" THEN "RateLimitedError"
                       ELSE "ResponseStatusError"]_vars

\* C21: when the proxies given to NewClientPool hold an endpoint no client
\* can be built for, the caller gets a construction error (and no pool).
C21_ConstructionFailsAtomically ==
    (Len(lastOp) = 3 /\ \E i \in DOMAIN lastOp[3] : lastOp[3][i] = "bad")
        => \E p \in Procs : res[p] = "construction_err"

\* C22: a scan starts at the first client, moves on only past a client it
\* found not available, and returns the client at its position, found
\* available: the client returned is the first one eligible during the scan.
C22_InOrderSelection ==
    [][\A p \in Procs :
          /\ (pc[p] = "gc_gate" /\ pc'[p] = "gc_scan") => idx'[p] = 1
          /\ (pc[p] = "gc_scan" /\ idx'[p] > idx[p])
                => \A i \in idx[p]..(idx'[p] - 1) :
                      i \in DOMAIN gcClients[p]
                          => ~(gcClients[p][i] # Nil /\ IsAvailable(gcClients[p][i]))
          /\ Returned(p) => /\ held'[p] = gcClients[p][idx[p]]
                            /\ IsAvailable(held'[p])]_vars

\* GetClient has returned the second client of the pool to a caller, past a
\* first client that is running
C22_Witness ==
    \E p \in Procs :
        /\ pc[p] = "idle" /\ held[p] # Nil
        /\ lastGrant = <<held[p], now>>
        /\ Len(Clients) >= 2
        /\ Clients[2] = held[p] /\ Clients[1] # held[p] /\ Clients[1] # Nil
        /\ running[Clients[1]]

\* C23: the pool-delay gate is evaluated once per GetClient call: after the
\* sleep of a retry the call goes on with the scan of the clients, not with
\* the most recent request time and the gate.
C23_GateEvaluatedOnce ==
    [][\A p \in Procs :
          (pc[p] = "gc_sleep" /\ pc'[p] # "gc_sleep") => pc'[p] = "gc_scan"]_vars

\* C24: computing the most recent request time and checking the gate change
\* no client's busy flag and no client's last-request time.
C24_GateIsReadOnly ==
    [][\A p \in Procs :
          (GetClientMax(p) \/ GetClientMaxSet(p) \/ GetClientMaxAct(p)
              \/ GetClientGate(p))
          => UNCHANGED <<running, lastReqTime>>]_vars

\* C25: a scan of GetClient or Done that runs while another caller adds a
\* client does not fault.
C25_ScanNeverFaults ==
    \A p \in Procs : lastOp[1] = "AddClient" => pc[p] # "panic"

\* C26: with zero client and pool delay, callers that each got a client from
\* GetClient in a pool of at least as many distinct clients hold distinct
\* clients: one GetClient per client returns without waiting for a release.
C26_HoldersGetDistinctClients ==
    (/\ poolDelay = 0
     /\ \A c \in Handles : delay[c] = 0
     /\ ~InPool(Nil, Clients)
     /\ Cardinality({c \in Handles : InPool(c, Clients)}) >= Cardinality(Procs)
     /\ \A p \in Procs : held[p] # Nil)
        => Cardinality({held[p] : p \in Procs}) = Cardinality(Procs)

C28_ClockRunsFromRequestStart ==
    [][\A c \in Handles :
          /\ (\E p \in Procs : CallSetInactive(p, c))
                => lastReqTime'[c] = lastReqTime[c]
          /\ (~running'[c] /\ lastReqTime'[c] > 0)
                => (IsAvailable(c)' <=> now' >= lastReqTime'[c] + delay'[c])]_vars

\* a client marked at some time and released later, not yet available
\* because its delay counts from the marking
C28_Witness ==
    \E c \in Handles :
        /\ ~running[c] /\ NoHolder(c)
        /\ lastReqTime[c] > 0
        /\ lastReqTime[c] < now
        /\ now < lastReqTime[c] + delay[c]
        /\ ~IsAvailable(c)

C30_DoneReturnsWhenIdle ==
    \A p \in Procs :
        pc[p] = "done_scan"
            ~> (pc[p] = "idle"
                \/ \E c \in Handles : InPool(c, gcClients[p]) /\ running[c])

\* C31: while QuickRequest of quick_request.go has its request out, every
\* value the caller listed under a header key is on the outgoing request,
\* and the header has at least as many values as the key lists.
C31_AllHeaderValuesSent ==
    \A p \in Procs :
        (pc[p] = "qr" /\ EarlyResult(reqIn[p]) = NoResult)
            => \A key \in DOMAIN reqHeaders[p] :
                  reqHeaders[p][key] # <<>>
                     => /\ CanonicalKey(key) \in DOMAIN sentHeader[p]
                        /\ LET sent == sentHeader[p][CanonicalKey(key)]
                           IN /\ Len(sent) >= Len(reqHeaders[p][key])
                              /\ \A i \in DOMAIN reqHeaders[p][key] :
                                    \E j \in DOMAIN sent :
                                       sent[j] = reqHeaders[p][key][i]
\* C32: a client's last-request time never decreases, and a step changes it
\* only as part of marking that client busy: the client is running after the
\* step and the new value is the time of the step.
C32_LastReqTimeMonotone ==
    [][\A c \in Handles :
          /\ lastReqTime'[c] >= lastReqTime[c]
          /\ lastReqTime'[c] # lastReqTime[c]
                => running'[c] /\ lastReqTime'[c] = now']_vars

\* a client released after a request at a later time than zero is being
\* marked again, at a still later time, by a caller inside SetActive
C32_Witness ==
    \E p \in Procs, c \in Handles :
        /\ pc[p] = "sa_locked" /\ held[p] = c
        /\ lastReqTime[c] > 0 /\ now > lastReqTime[c]
\* C33: every entry of the pool's collection is a constructed client, never
\* a placeholder, and no scan of GetClient or Done has faulted on an absent
\* client.
C33_NoNilEntries ==
    /\ \A i \in DOMAIN Clients : Clients[i] \in Handles
    /\ \A p \in Procs : pc[p] # "panic"
C35_DuplicatesShareState ==
    \A c \in Handles :
        Count(c, Clients) > 1
            => /\ running[c] => \A i \in DOMAIN Clients :
                                    Clients[i] = c => ~IsAvailable(Clients[i])
               /\ \A p, q \in Procs : (p # q /\ held[p] = c) => held[q] # c
====
